---- MODULE Spec2Model ----
(***************************************************************************)
(* Model of the attendance registration page (client App component).      *)
(*                                                                         *)
(* Text is a sequence of tokens.  A token is a string: either the single   *)
(* characters "@", "." and " ", an HTML tag such as "<tr>", or a run of    *)
(* other non-blank characters ("jordan").  Concatenation of text is \o.    *)
(*                                                                         *)
(* The form buffer `form` is the values object of useForm (default         *)
(* options, so shouldUnregister is false): a function whose DOMAIN is the  *)
(* set of keys the object has.  An input that is rendered is registered    *)
(* and validated; an input that is not rendered keeps its value in the     *)
(* object and is not validated.                                            *)
(***************************************************************************)
EXTENDS Integers, Sequences, FiniteSets, TLC

VARIABLES registrations, form, summary, uuidCount, ev

vars == <<registrations, form, summary, uuidCount, ev>>

\* ---------------------------------------------------------------- bounds
MaxRegs == 2

\* ------------------------------------------------------------ vocabulary
roles == <<"student", "teacher">>

Role == {roles[i] : i \in 1..Len(roles)}

Empty == <<>>

JordanLee == <<"Jordan", " ", "Lee">>

MarkupName == <<"</td>", "</tr>", "<tr>", "<td>", "x">>

Grade10 == <<"10">>

Stu2045 == <<"STU-2045">>

Mathematics == <<"Mathematics">>

Emp8820 == <<"EMP-8820">>

NotAnEmail == <<"not-an-email">>

JordanEmail == <<"jordan", "@", "school", ".", "edu">>

\* What the user can type into each input; names is what is typed as a name.
Typed(f, names) ==
    CASE f = "fullName"   -> {Empty} \cup names
      [] f = "email"      -> {Empty, NotAnEmail, JordanEmail}
      [] f = "gradeLevel" -> {Empty, Grade10}
      [] f = "studentId"  -> {Empty, Stu2045}
      [] f = "subject"    -> {Empty, Mathematics}
      [] f = "employeeId" -> {Empty, Emp8820}

\* new Date(): the session runs on one day, and the n-th registration is
\* submitted n seconds after nine.
Now(n) == [date |-> "11/1/2026", time |-> <<"9:00:0", ToString(n), " ", "AM">>]

toLocaleString(now) == <<now.date, ",", " ">> \o now.time

toLocaleDateString(now) == <<now.date>>

today(now) == toLocaleDateString(now)

\* ------------------------------------------------------------------ form
\* The pair of inputs rendered for a role (the ternary on selectedRole).
RolePair(r) == IF r = "student" THEN {"gradeLevel", "studentId"}
                                ELSE {"subject", "employeeId"}

\* The inputs rendered, hence registered and validated, for a role.
Rendered(r) == {"role", "fullName", "email"} \cup RolePair(r)

selectedRole == form.role

\* /\S+@\S+\.\S+/.test(s): some "@" at p and "." at q with a non-blank
\* before "@", at least one non-blank between them and one after ".".
EmailPatternTest(s) ==
    \E p \in 1..Len(s), q \in 1..Len(s) :
        /\ s[p] = "@"
        /\ s[q] = "."
        /\ p >= 2
        /\ q >= p + 2
        /\ q + 1 <= Len(s)
        /\ \A k \in (p - 1)..(q + 1) : s[k] # " "

\* required: the value is missing or the empty string.
IsEmptyValue(values, f) == f \notin DOMAIN values \/ values[f] = Empty

\* FieldError without the pattern rule of the email input.
FieldError_NoPattern(values, f) ==
    CASE f = "role"  -> FALSE
      [] OTHER       -> IsEmptyValue(values, f)

\* The validation rule each register() call attaches to its input.
FieldError(values, f) ==
    CASE f = "role"  -> FALSE
      [] f = "email" -> IsEmptyValue(values, f) \/ ~EmailPatternTest(values[f])
      [] OTHER       -> IsEmptyValue(values, f)

\* Validate when the inputs of both pairs are validated whatever the role.
Validate_BothPairs(values) ==
    {f \in Rendered("student") \cup Rendered("teacher") :
        FieldError(values, f)}

\* The errors handleSubmit finds: the rendered inputs whose rule fails.
Validate(values) == {f \in Rendered(values.role) : FieldError(values, f)}

\* ResetValues when the role goes back to the default of useForm.
ResetValues_DefaultRole(data) ==
    [role |-> "student", fullName |-> Empty, email |-> Empty,
     gradeLevel |-> Empty, studentId |-> Empty,
     subject |-> Empty, employeeId |-> Empty]

\* reset({role: data.role, fullName: "", ...}).
ResetValues(data) ==
    [role |-> data.role, fullName |-> Empty, email |-> Empty,
     gradeLevel |-> Empty, studentId |-> Empty,
     subject |-> Empty, employeeId |-> Empty]

\* randomUUID when every call returns the same identifier.
randomUUID_Constant(n) == 1

\* crypto.randomUUID(): the n-th identifier generated in this session.
randomUUID(n) == n + 1

\* { id, createdAt, ...data }
NewEntry(data, id, now) ==
    data @@ [id |-> id, createdAt |-> toLocaleString(now)]

\* --------------------------------------------------------------- summary
\* registrations.filter((registration) => registration.role === r).length
CountRole(regs, r) == Cardinality({i \in 1..Len(regs) : regs[i].role = r})

\* computeSummary when the second filter tests for "student" too.
computeSummary_SameFilter(regs) ==
    [studentCount |-> CountRole(regs, "student"),
     teacherCount |-> CountRole(regs, "student"),
     total        |-> Len(regs)]

\* The function useMemo evaluates when registrations has changed.
computeSummary(regs) ==
    [studentCount |-> CountRole(regs, "student"),
     teacherCount |-> CountRole(regs, "teacher"),
     total        |-> Len(regs)]

\* ---------------------------------------------------------------- report
\* registration.f ?? ""
OrEmpty(registration, f) ==
    IF f \in DOMAIN registration THEN registration[f] ELSE Empty

\* One <tr> of the template: the values are interpolated as they are.
TableRow(registration, index) ==
    <<"<tr>">>
    \o <<"<td>", ToString(index + 1), "</td>">>
    \o <<"<td>">> \o registration.fullName \o <<"</td>">>
    \o <<"<td>", registration.role, "</td>">>
    \o <<"<td>">> \o registration.email \o <<"</td>">>
    \o <<"<td>">>
    \o (IF registration.role = "student"
        THEN OrEmpty(registration, "gradeLevel")
        ELSE OrEmpty(registration, "subject"))
    \o <<"</td>">>
    \o <<"<td>">>
    \o (IF registration.role = "student"
        THEN OrEmpty(registration, "studentId")
        ELSE OrEmpty(registration, "employeeId"))
    \o <<"</td>">>
    \o <<"<td>">> \o registration.createdAt \o <<"</td>">>
    \o <<"</tr>">>

\* registrations.map(...).join("")
RECURSIVE JoinRows(_, _)
JoinRows(regs, index) ==
    IF index >= Len(regs) THEN <<>>
    ELSE TableRow(regs[index + 1], index) \o JoinRows(regs, index + 1)

buildPrintableHtml(regs, now) ==
    <<"<html>", "<head>", "<title>", "Registration Report", "</title>",
      "<style>", "</style>", "</head>", "<body>",
      "<h1>", "Registration Report", "</h1>",
      "<p>", "Generated:", " ">> \o today(now) \o <<"</p>",
      "<table>", "<thead>", "<tr>",
      "<th>", "#", "</th>", "<th>", "Name", "</th>", "<th>", "Role", "</th>",
      "<th>", "Email", "</th>", "<th>", "Grade/Subject", "</th>",
      "<th>", "ID", "</th>", "<th>", "Registered at", "</th>",
      "</tr>", "</thead>", "<tbody>">>
    \o JoinRows(regs, 0)
    \o <<"</tbody>", "</table>", "</body>", "</html>">>

\* ---------------------------------------------------------------- events
NoWindow == [opened |-> FALSE, created |-> FALSE, written |-> <<>>,
             printed |-> FALSE, closed |-> FALSE]

Event(kind, errors, win) == [kind |-> kind, errors |-> errors, win |-> win]

Init ==
    /\ registrations = <<>>
    /\ form = [role |-> "student", fullName |-> Empty, email |-> Empty,
               gradeLevel |-> Empty, studentId |-> Empty]
    /\ summary = computeSummary(<<>>)
    /\ uuidCount = 0
    /\ ev = Event("init", {}, NoWindow)

\* The user edits a rendered text input.
OnChange(f, v) ==
    /\ f \in Rendered(selectedRole) \ {"role"}
    /\ v # form[f]
    /\ form' = [form EXCEPT ![f] = v]
    /\ ev' = Event("input", {}, NoWindow)
    /\ UNCHANGED <<registrations, summary, uuidCount>>

\* The user picks the other option of the role select.  The inputs of the
\* new pair are rendered; one that has no value yet starts empty.
OnRoleChange(r) ==
    /\ r \in Role
    /\ r # selectedRole
    /\ form' = [f \in DOMAIN form \cup RolePair(r) |->
                   IF f = "role" THEN r
                   ELSE IF f \in DOMAIN form THEN form[f]
                   ELSE Empty]
    /\ ev' = Event("input", {}, NoWindow)
    /\ UNCHANGED <<registrations, summary, uuidCount>>

\* onSubmit when the new entry is put after the previous ones.
onSubmit_Appends(data, now) ==
    /\ registrations' =
           registrations \o <<NewEntry(data, randomUUID(uuidCount), now)>>
    /\ uuidCount' = uuidCount + 1
    /\ form' = ResetValues(data)
    /\ summary' = computeSummary(registrations')

\* onSubmit(data), and the render that follows it.
onSubmit(data, now) ==
    /\ registrations' =
           <<NewEntry(data, randomUUID(uuidCount), now)>> \o registrations
    /\ uuidCount' = uuidCount + 1
    /\ form' = ResetValues(data)
    /\ summary' = computeSummary(registrations')

\* handleSubmit(onSubmit): validate, then call onSubmit with the values.
HandleSubmit ==
    /\ Len(registrations) < MaxRegs
    /\ ev' = Event("submit", Validate(form), NoWindow)
    /\ IF Validate(form) = {}
       THEN onSubmit(form, Now(uuidCount + 1))
       ELSE UNCHANGED <<registrations, form, summary, uuidCount>>

\* handleDownload without the early return on an empty list.
handleDownload_NoEmptyCheck(canOpen) ==
    /\ ev' = Event("download", {},
             IF ~canOpen THEN [NoWindow EXCEPT !.opened = TRUE]
             ELSE [opened |-> TRUE, created |-> TRUE,
                   written |-> buildPrintableHtml(registrations,
                                                  Now(uuidCount)),
                   printed |-> TRUE, closed |-> TRUE])
    /\ UNCHANGED <<registrations, form, summary, uuidCount>>

\* handleDownload; canOpen is whether the host lets window.open succeed.
handleDownload(canOpen) ==
    /\ ev' = Event("download", {},
             IF Len(registrations) = 0 THEN NoWindow
             ELSE IF ~canOpen THEN [NoWindow EXCEPT !.opened = TRUE]
             ELSE [opened |-> TRUE, created |-> TRUE,
                   written |-> buildPrintableHtml(registrations,
                                                  Now(uuidCount)),
                   printed |-> TRUE, closed |-> TRUE])
    /\ UNCHANGED <<registrations, form, summary, uuidCount>>

Step(names) ==
    \/ \E f \in Rendered(selectedRole) \ {"role"} :
           \E v \in Typed(f, names) : OnChange(f, v)
    \/ \E r \in Role : OnRoleChange(r)
    \/ HandleSubmit
    \/ \E canOpen \in BOOLEAN : handleDownload(canOpen)

Next == Step({JordanLee})

Spec == Init /\ [][Next]_vars

\* The same page when the name typed contains markup.
NextMarkup == Step({MarkupName})

SpecMarkup == Init /\ [][NextMarkup]_vars

\* ================================================================ claims
\* A field of a record holds text.
Populated(values, f) == f \in DOMAIN values /\ values[f] # Empty

\* The submitted values are valid as the form's rules state it: the name
\* and the email are filled, the email has the shape local@domain.tld and
\* both fields of the pair of the selected role are filled.
ValidInput(values) ==
    /\ Populated(values, "fullName")
    /\ Populated(values, "email")
    /\ EmailPatternTest(values.email)
    /\ \A f \in RolePair(values.role) : Populated(values, f)

OtherRole(r) == IF r = "student" THEN "teacher" ELSE "student"

\* The step is a submit of the form.
SubmitStep == ev'.kind = "submit"

\* C1: a valid submission prepends exactly one new Registration: it is
\* first and holds the submitted values, the previous entries follow in
\* their previous order, total and the count of the submitted role grow by
\* one and the count of the other role is unchanged.
C1_ValidSubmitPrepends ==
    [][(SubmitStep /\ ValidInput(form)) =>
          /\ Len(registrations') = Len(registrations) + 1
          /\ \A f \in DOMAIN form :
                /\ f \in DOMAIN registrations'[1]
                /\ registrations'[1][f] = form[f]
          /\ Tail(registrations') = registrations
          /\ summary'.total = summary.total + 1
          /\ CountRole(registrations', form.role)
                = CountRole(registrations, form.role) + 1
          /\ CountRole(registrations', OtherRole(form.role))
                = CountRole(registrations, OtherRole(form.role))
          /\ (form.role = "student" =>
                 /\ summary'.studentCount = summary.studentCount + 1
                 /\ summary'.teacherCount = summary.teacherCount)
          /\ (form.role = "teacher" =>
                 /\ summary'.teacherCount = summary.teacherCount + 1
                 /\ summary'.studentCount = summary.studentCount)]_vars

\* A valid student submission has just been put in front of a teacher entry.
C1_Witness ==
    /\ ev.kind = "submit"
    /\ ev.errors = {}
    /\ Len(registrations) = 2
    /\ registrations[1].role = "student"
    /\ registrations[1].studentId = Stu2045
    /\ registrations[2].role = "teacher"

\* C2: an invalid submission produces a validation error and leaves the
\* registration list as it was, in length and in content.
C2_InvalidSubmitRejected ==
    [][(SubmitStep /\ ~ValidInput(form)) =>
          /\ ev'.errors # {}
          /\ Len(registrations') = Len(registrations)
          /\ registrations' = registrations]_vars

\* A submit with email "not-an-email" has just been rejected while the list
\* already holds an entry.
C2_Witness ==
    /\ ev.kind = "submit"
    /\ "email" \in ev.errors
    /\ form.email = NotAnEmail
    /\ Populated(form, "fullName")
    /\ Len(registrations) = 1

\* C3: every Registration in the list has the pair of its role populated
\* and no value in the pair of the other role.
C3_ExactlyOnePair ==
    \A i \in 1..Len(registrations) :
        /\ \A f \in RolePair(registrations[i].role) :
               Populated(registrations[i], f)
        /\ \A f \in RolePair(OtherRole(registrations[i].role)) :
               ~Populated(registrations[i], f)

\* C4: with a valid name and email, a submission is accepted exactly when
\* both fields of the pair of the selected role are filled, whatever the
\* other pair holds; a rejection names only fields of the selected pair.
C4_RoleDecidesRequiredPair ==
    [][(/\ SubmitStep
        /\ Populated(form, "fullName")
        /\ Populated(form, "email")
        /\ EmailPatternTest(form.email)) =>
          /\ (\A f \in RolePair(form.role) : Populated(form, f))
                <=> (ev'.errors = {}
                     /\ Len(registrations') = Len(registrations) + 1
                     /\ registrations'[1].role = form.role)
          /\ (\E f \in RolePair(form.role) : ~Populated(form, f))
                <=> (ev'.errors # {} /\ registrations' = registrations)
          /\ ev'.errors = {f \in RolePair(form.role) : ~Populated(form, f)}
       ]_vars

\* After the switch to teacher a submission without an employee id has
\* just been rejected; before it a teacher was accepted although the
\* student pair was only half filled.
C4_Witness ==
    /\ ev.kind = "submit"
    /\ ev.errors = {"employeeId"}
    /\ form.role = "teacher"
    /\ Populated(form, "subject")
    /\ Len(registrations) = 1
    /\ registrations[1].role = "teacher"
    /\ registrations[1].gradeLevel = Empty
    /\ registrations[1].studentId = Stu2045

\* C5: after N valid submissions, whatever else happened, the summary
\* shows total = N and studentCount + teacherCount = N, and it agrees with
\* the list.
C5_SummaryCounts ==
    /\ summary.total = uuidCount
    /\ summary.studentCount + summary.teacherCount = uuidCount
    /\ summary.total = Len(registrations)
    /\ summary.studentCount = CountRole(registrations, "student")
    /\ summary.teacherCount = CountRole(registrations, "teacher")

\* Two valid submissions, one of each role, followed by a report.
C5_Witness ==
    /\ uuidCount = 2
    /\ summary.studentCount = 1
    /\ summary.teacherCount = 1
    /\ ev.kind = "download"
    /\ ev.win.printed

\* Reading a document: the position of the n-th token tok at or after
\* position from, or 0 when there is none.
RECURSIVE NthIn(_, _, _, _)
NthIn(doc, tok, from, n) ==
    IF from < 1 \/ from > Len(doc) THEN 0
    ELSE IF doc[from] = tok
         THEN IF n = 1 THEN from ELSE NthIn(doc, tok, from + 1, n - 1)
         ELSE NthIn(doc, tok, from + 1, n)

TBodyStart(doc) == NthIn(doc, "<tbody>", 1, 1)

TBodyEnd(doc) == NthIn(doc, "</tbody>", TBodyStart(doc), 1)

\* The number of rows of the table body.
BodyRowCount(doc) ==
    Cardinality({p \in TBodyStart(doc)..TBodyEnd(doc) : doc[p] = "<tr>"})

RowStart(doc, i) == NthIn(doc, "<tr>", TBodyStart(doc), i)

RowEnd(doc, i) == NthIn(doc, "</tr>", RowStart(doc, i), 1)

\* The text of the k-th cell of the i-th body row; <<"?">> when the row has
\* no such cell.
Cell(doc, i, k) ==
    LET a == NthIn(doc, "<td>", RowStart(doc, i), k)
        b == NthIn(doc, "</td>", a, 1)
    IN  IF a = 0 \/ b = 0 \/ b > RowEnd(doc, i) THEN <<"?">>
        ELSE SubSeq(doc, a + 1, b - 1)

\* C6: the report written for N registrations has exactly N table body
\* rows, numbered 1..N, in the order of the list; row i shows the name and
\* creation time of the i-th registration and its gradeLevel and studentId
\* when it is a student, its subject and employeeId when it is a teacher.
C6_ReportRows ==
    (ev.kind = "download" /\ ev.win.created) =>
        LET doc == ev.win.written
        IN  /\ BodyRowCount(doc) = Len(registrations)
            /\ \A i \in 1..Len(registrations) :
                  LET r == registrations[i]
                  IN  /\ Cell(doc, i, 1) = <<ToString(i)>>
                      /\ Cell(doc, i, 2) = r.fullName
                      /\ Cell(doc, i, 3) = <<r.role>>
                      /\ Cell(doc, i, 7) = r.createdAt
                      /\ r.role = "student" =>
                            /\ Cell(doc, i, 5) = r.gradeLevel
                            /\ Cell(doc, i, 6) = r.studentId
                      /\ r.role = "teacher" =>
                            /\ Cell(doc, i, 5) = r.subject
                            /\ Cell(doc, i, 6) = r.employeeId

\* The step is a report action.
DownloadStep == ev'.kind = "download"

\* C7: the report action opens a window only when the list is not empty,
\* and writes, prints and closes only when the window was created; when
\* nothing is opened or the host refuses, nothing further happens, and the
\* list and the form buffer are unchanged in every case.
C7_ReportOnlyWhenPossible ==
    [][DownloadStep =>
          /\ ev'.win.opened <=> Len(registrations) > 0
          /\ ev'.win.created => ev'.win.opened
          /\ ev'.win.created =>
                /\ ev'.win.written # <<>>
                /\ ev'.win.printed
                /\ ev'.win.closed
          /\ ~ev'.win.created =>
                /\ ev'.win.written = <<>>
                /\ ~ev'.win.printed
                /\ ~ev'.win.closed
          /\ ev'.errors = {}
          /\ registrations' = registrations
          /\ form' = form
          /\ summary' = summary]_vars

\* The host has just refused the window for a list of two registrations.
C7_Witness ==
    /\ ev.kind = "download"
    /\ ev.win.opened
    /\ ~ev.win.created
    /\ Len(registrations) = 2

\* C8: a successful submission leaves the form buffer with the role just
\* submitted and every other field empty.
C8_ResetKeepsRole ==
    [][(SubmitStep /\ ev'.errors = {}) =>
          /\ form'.role = form.role
          /\ DOMAIN form' = {"role", "fullName", "email", "gradeLevel",
                             "studentId", "subject", "employeeId"}
          /\ \A f \in DOMAIN form' \ {"role"} : form'[f] = Empty]_vars

\* A teacher has just been submitted and the form is blank with role
\* teacher, which is not the initial role.
C8_Witness ==
    /\ ev.kind = "submit"
    /\ ev.errors = {}
    /\ registrations[1].role = "teacher"
    /\ form.role = "teacher"
    /\ form.fullName = Empty
    /\ form.subject = Empty

\* C9: after a change of role the form buffer holds no value typed for the
\* pair of the role that was selected before.
C9_RoleChangeDiscardsInput ==
    [][form'.role # form.role =>
          \A f \in RolePair(form.role) : ~Populated(form', f)]_vars

\* No two entries of a list have the same id.
DistinctIds(regs) ==
    \A i, j \in 1..Len(regs) : regs[i].id = regs[j].id => i = j

\* C10: no step removes, reorders or modifies a Registration: the old list
\* is the tail end of the new one, entry by entry, the length never
\* decreases, and the ids in the list are pairwise distinct.
C10_AppendOnly ==
    [][/\ Len(registrations') >= Len(registrations)
       /\ \A i \in 1..Len(registrations) :
             registrations'[i + Len(registrations') - Len(registrations)]
                = registrations[i]
       /\ DistinctIds(registrations')]_vars

\* A list of two registrations is still there after a later edit of the
\* form.
C10_Witness ==
    /\ Len(registrations) = 2
    /\ registrations[1].id # registrations[2].id
    /\ ev.kind = "input"
    /\ Populated(form, "email")

====
